---- MODULE Spec2Model ----
(***************************************************************************)
(* Model of the Gisquick QGIS plugin (src/webgisplugin.py): the Node tree  *)
(* helper, the projection of the host layer tree onto Node trees, the      *)
(* scale / resolution helpers and the publish-dialog entry point.          *)
(*                                                                         *)
(* Objects are identified by their position: a node of a tree is named by  *)
(* its path, the sequence of child indexes leading to it from the root.    *)
(* Node.parent is the path with its last index removed and is not stored.  *)
(* Python's None is modelled by a value of the same shape as the values it *)
(* stands in for, because TLC compares only values of one shape.           *)
(***************************************************************************)
EXTENDS Integers, Sequences, FiniteSets, TLC

VARIABLES
    tree,       \* a tree of Node objects, the receiver of find and cascade
    hostTree,   \* the host's layer tree: iface.layerTreeView().layerTreeModel().rootGroup()
    mapLayers,  \* the layers of the project: QgsProject.instance().mapLayers().values()
    scalesEntry,\* the project's entry ("Scales", "/ScalesList") as readListEntry returns it
    theLayer,   \* the map layer the resolution helpers are called on
    fileName,   \* QgsProject.instance().fileName(), the file of the host's project
    dirFiles,   \* os.listdir of the directory the project files are in
    dialog,     \* WebGisPlugin.dialog: 0 for None, else the identity of the dialog
    dialogVisible, \* dialog.isVisible()
    project,    \* WebGisPlugin.project is set (to QgsProject.instance())
    metadata,   \* WebGisPlugin.metadata: 0 while not set, else the identity of the dict
    last_metadata, \* WebGisPlugin.last_metadata
    ret         \* record of the last call: its operation, inputs and result

pluginVars == <<dialog, dialogVisible, project, metadata, last_metadata>>

hostVars == <<tree, hostTree, mapLayers, scalesEntry, theLayer, fileName, dirFiles>>

vars == <<hostVars, pluginVars, ret>>

(***************************************************************************)
(* Bounds of the model.                                                    *)
(***************************************************************************)
MaxNodes == 5          \* nodes of a Node tree
MaxHostNodes == 3      \* nodes of the host layer tree below its root group
MaxScale == 2          \* greatest scale denominator
StepsPerScale == 2     \* resolutions told apart between two consecutive scales
MaxResLen == 2         \* resolutions a data provider lists
MaxScaleEntries == 2   \* entries of the project's scales list
MaxTimestamp == 2      \* distinct publication times of metadata files
MaxFiles == 2          \* files of the project's directory besides the project

NodeNames == {"a", "b"}
AbsentName == "z"

(***************************************************************************)
(* Generic helpers.                                                        *)
(***************************************************************************)
IsPrefix(p, q) == Len(p) <= Len(q) /\ SubSeq(q, 1, Len(p)) = p

IsProperPrefix(p, q) == Len(p) < Len(q) /\ SubSeq(q, 1, Len(p)) = p

\* first index at which two paths, neither a prefix of the other, differ
FirstDiff(p, q) ==
    CHOOSE k \in 1..Len(p) :
        /\ k <= Len(q)
        /\ p[k] # q[k]
        /\ \A j \in 1..(k - 1) : p[j] = q[j]

\* p is visited before q in a pre-order walk
PreBefore(p, q) ==
    \/ IsProperPrefix(p, q)
    \/ /\ ~IsPrefix(p, q)
       /\ ~IsPrefix(q, p)
       /\ p[FirstDiff(p, q)] < q[FirstDiff(p, q)]

\* p is visited before q in a post-order walk
PostBefore(p, q) ==
    \/ IsProperPrefix(q, p)
    \/ /\ ~IsPrefix(p, q)
       /\ ~IsPrefix(q, p)
       /\ p[FirstDiff(p, q)] < q[FirstDiff(p, q)]

(***************************************************************************)
(* class Node                                                              *)
(***************************************************************************)
\* the value of Node.layer when no layer is attached
NoLayer == [id |-> "", type |-> "None", provider |-> ""]

\* Node.__init__ with already built children (append keeps their order)
Node(name, children, layer) ==
    [name |-> name, layer |-> layer, children |-> children]

RECURSIVE NodeTreesOfSize(_), NodeForestsOfSize(_)
\* all trees of exactly n nodes without layers
NodeTreesOfSize(n) ==
    IF n < 1 THEN {}
    ELSE { Node(nm, f, NoLayer) : nm \in NodeNames, f \in NodeForestsOfSize(n - 1) }

\* all sequences of trees with n nodes in total
NodeForestsOfSize(n) ==
    IF n = 0 THEN { <<>> }
    ELSE UNION { { <<t>> \o f : t \in NodeTreesOfSize(k), f \in NodeForestsOfSize(n - k) }
                 : k \in 1..n }

NodeTrees == UNION { NodeTreesOfSize(n) : n \in 1..MaxNodes }

RECURSIVE NodeAt(_, _)
\* the node of tree t at path p
NodeAt(t, p) ==
    IF p = <<>> THEN t ELSE NodeAt(t.children[Head(p)], Tail(p))

RECURSIVE Paths(_)
\* the paths of all nodes of tree t
Paths(t) ==
    { <<>> } \cup
    UNION { { <<i>> \o p : p \in Paths(t.children[i]) } : i \in 1..Len(t.children) }

\* the paths, from the root of t, of the nodes of the subtree rooted at path n
SubtreePaths(t, n) == { p \in Paths(t) : IsPrefix(n, p) }

\* the result of a call that returns a node or None
None == [isNone |-> TRUE, path |-> <<>>]

Some(p) == [isNone |-> FALSE, path |-> p]

\* truth value of "if res:" for a Node or None: Node defines neither
\* __bool__ nor __len__, so every Node is true
Truthy(res) == ~res.isNone

RECURSIVE find(_, _, _), findChildren(_, _, _, _)
\* the loop of find written as "return child.find(name)": only the first
\* child is searched
findFirstChildOnly(t, self, name, i) ==
    IF i > Len(NodeAt(t, self).children)
    THEN None
    ELSE find(t, self \o <<i>>, name)

\* Node.find on the node at path self of tree t
find(t, self, name) ==
    IF name = NodeAt(t, self).name
    THEN Some(self)
    ELSE findChildren(t, self, name, 1)

\* the loop "for child in self.children" of Node.find, from the i-th child on
findChildren(t, self, name, i) ==
    IF i > Len(NodeAt(t, self).children)
    THEN None
    ELSE LET res == find(t, self \o <<i>>, name)
         IN  IF Truthy(res) THEN res ELSE findChildren(t, self, name, i + 1)

RECURSIVE cascade(_, _, _), cascadeChildren(_, _, _, _)
\* cascade with fn executed before the children are visited (pre-order)
cascadePreOrder(t, self, log) ==
    cascadeChildren(t, self, Append(log, self), 1)

\* Node.cascade on the node at path self of tree t; fn appends the node it
\* is executed on to the log it is given, and the log is returned
cascade(t, self, log) ==
    Append(cascadeChildren(t, self, log, 1), self)

\* the loop "for child in self.children" of Node.cascade, from the i-th child on
cascadeChildren(t, self, log, i) ==
    IF i > Len(NodeAt(t, self).children)
    THEN log
    ELSE cascadeChildren(t, self, cascade(t, self \o <<i>>, log), i + 1)

(***************************************************************************)
(* The host's layer tree and its projection onto Node trees.               *)
(***************************************************************************)
\* the map layers of the project: two vector layers, a WMS raster layer, a
\* raster layer of another provider and a layer that is neither vector nor raster
Layers ==
    { [id |-> "v1", type |-> "VectorLayer", provider |-> "ogr"],
      [id |-> "v2", type |-> "VectorLayer", provider |-> "ogr"],
      [id |-> "w1", type |-> "RasterLayer", provider |-> "wms"],
      [id |-> "r1", type |-> "RasterLayer", provider |-> "gdal"],
      [id |-> "p1", type |-> "PluginLayer", provider |-> ""] }

GroupNames == {"g", "h"}

\* a QgsLayerTreeLayer of the host tree
TreeLayer(layer) ==
    [kind |-> "layer", name |-> layer.id, layer |-> layer, children |-> <<>>]

\* a QgsLayerTreeGroup of the host tree
TreeGroup(name, children) ==
    [kind |-> "group", name |-> name, layer |-> NoLayer, children |-> children]

RECURSIVE HostTreesOfSize(_), HostForestsOfSize(_)
\* all host subtrees of exactly n nodes
HostTreesOfSize(n) ==
    IF n < 1 THEN {}
    ELSE { TreeGroup(nm, f) : nm \in GroupNames, f \in HostForestsOfSize(n - 1) }
         \cup (IF n = 1 THEN { TreeLayer(l) : l \in Layers } ELSE {})

\* all sequences of host subtrees with n nodes in total
HostForestsOfSize(n) ==
    IF n = 0 THEN { <<>> }
    ELSE UNION { { <<t>> \o f : t \in HostTreesOfSize(k), f \in HostForestsOfSize(n - k) }
                 : k \in 1..n }

\* the paths of the QgsLayerTreeLayer nodes of host tree t
LayerPaths(t) == { p \in Paths(t) : NodeAt(t, p).kind = "layer" }

\* a layer of the project has one node in the layer tree
UniqueLayers(t) ==
    \A p, q \in LayerPaths(t) : NodeAt(t, p).layer = NodeAt(t, q).layer => p = q

\* the root group of the host tree has the empty name
HostTrees ==
    { t \in { TreeGroup("", f) :
                f \in UNION { HostForestsOfSize(n) : n \in 0..MaxHostNodes } } :
        UniqueLayers(t) }

IdleHostTree == TreeGroup("", <<>>)

\* is_overlay_layer_for_publish with the raster test alone
isOverlayAnyRaster(layer) ==
    \/ layer.type = "VectorLayer"
    \/ layer.type = "RasterLayer"

\* WebGisPlugin.is_overlay_layer_for_publish
is_overlay_layer_for_publish(layer) ==
    \/ layer.type = "VectorLayer"
    \/ (layer.type = "RasterLayer" /\ layer.provider # "wms")

\* WebGisPlugin.is_base_layer_for_publish
is_base_layer_for_publish(layer) ==
    layer.type = "RasterLayer" /\ layer.provider = "wms"

\* a returned Node or None: a sequence of no or one Node
NoneNode == <<>>

RECURSIVE overlays_tree(_), overlays_children(_, _, _)
\* the inner function overlays_tree of get_project_layers
overlays_tree(tree_node) ==
    IF tree_node.kind = "layer"
    THEN IF is_overlay_layer_for_publish(tree_node.layer)
         THEN << Node(tree_node.layer.id, <<>>, tree_node.layer) >>
         ELSE NoneNode
    ELSE LET children == overlays_children(tree_node, 1, <<>>)
         IN  IF children # <<>>
             THEN << Node(tree_node.name, children, NoLayer) >>
             ELSE NoneNode

\* its loop "for child_tree_node in tree_node.children()", from the i-th on
overlays_children(tree_node, i, children) ==
    IF i > Len(tree_node.children)
    THEN children
    ELSE LET node == overlays_tree(tree_node.children[i])
         IN  overlays_children(tree_node, i + 1,
                               IF node # NoneNode THEN children \o node ELSE children)

RECURSIVE base_overlays_tree(_), base_overlays_children(_, _, _)
\* the inner function overlays_tree of get_project_base_layers
base_overlays_tree(tree_node) ==
    IF tree_node.kind = "layer"
    THEN IF is_base_layer_for_publish(tree_node.layer)
         THEN << Node(tree_node.layer.id, <<>>, tree_node.layer) >>
         ELSE NoneNode
    ELSE LET children == base_overlays_children(tree_node, 1, <<>>)
         IN  IF children # <<>>
             THEN << Node(tree_node.name, children, NoLayer) >>
             ELSE NoneNode

\* its loop "for child_tree_node in tree_node.children()", from the i-th on
base_overlays_children(tree_node, i, children) ==
    IF i > Len(tree_node.children)
    THEN children
    ELSE LET node == base_overlays_tree(tree_node.children[i])
         IN  base_overlays_children(tree_node, i + 1,
                                    IF node # NoneNode THEN children \o node ELSE children)

\* WebGisPlugin.get_project_layers
get_project_layers(root_node) == overlays_tree(root_node)

\* WebGisPlugin.get_project_base_layers
get_project_base_layers(root_node) == base_overlays_tree(root_node)

(***************************************************************************)
(* Scales and resolutions.                                                 *)
(*                                                                         *)
(* A scale is its denominator, a natural number.  A resolution is a        *)
(* multiple of a fixed step, 1 / (StepsPerScale * DPI * units per inch):   *)
(* the resolution of scale s is s * StepsPerScale steps whatever the map   *)
(* units, which fix only the size of the step.                             *)
(***************************************************************************)
ResValues == 1..(StepsPerScale * MaxScale)

Scales == 1..MaxScale

RECURSIVE SeqsUpTo(_, _)
\* the sequences over S of length at most n
SeqsUpTo(S, n) ==
    IF n = 0 THEN { <<>> }
    ELSE SeqsUpTo(S, n - 1) \cup
         { Append(q, x) : q \in { r \in SeqsUpTo(S, n - 1) : Len(r) = n - 1 }, x \in S }

\* the elements of a sequence
Range(q) == { q[i] : i \in 1..Len(q) }

\* the number of occurrences of x in sequence q
Count(q, x) == Cardinality({ i \in 1..Len(q) : q[i] = x })

RECURSIVE InsertDesc(_, _)
\* x inserted into the descending sequence q
InsertDesc(q, x) ==
    IF q = <<>> THEN <<x>>
    ELSE IF x >= Head(q) THEN <<x>> \o q
    ELSE <<Head(q)>> \o InsertDesc(Tail(q), x)

RECURSIVE sortedReverse(_)
\* sorted(q, reverse=True) of a list of numbers
sortedReverse(q) ==
    IF q = <<>> THEN <<>> ELSE InsertDesc(sortedReverse(Tail(q)), Head(q))

RECURSIVE sortedReverseSet(_)
\* sorted(S, reverse=True) of a set of numbers
sortedReverseSet(S) ==
    IF S = {} THEN <<>>
    ELSE LET m == CHOOSE x \in S : \A y \in S : y <= x
         IN  <<m>> \o sortedReverseSet(S \ {m})

\* utils.scales_to_resolutions, through WebGisPlugin.scales_to_resolutions
scales_to_resolutions(scales) ==
    [ i \in 1..Len(scales) |-> scales[i] * StepsPerScale ]

\* round() of the Decimal n / d: to the nearest integer, a half to the even one
RoundHalfEven(n, d) ==
    LET q == n \div d
        r == n % d
    IN  IF 2 * r < d THEN q
        ELSE IF 2 * r > d THEN q + 1
        ELSE IF q % 2 = 0 THEN q ELSE q + 1

\* utils.resolutions_to_scales, through WebGisPlugin.resolutions_to_scales,
\* of a set of resolutions: the scales it lists
resolutions_to_scales(resolutions) ==
    { RoundHalfEven(res, StepsPerScale) : res \in resolutions }

\* the value of dataProvider().property('resolutions'): None, a list of
\* numbers or a string of comma-separated numbers
NoProperty == [kind |-> "none", items |-> <<>>]

ListProperty(q) == [kind |-> "list", items |-> q]

StrProperty(q) == [kind |-> "str", items |-> q]

\* truth value of "if layer_resolutions:" for a property value
PropertyTruthy(value) == value.kind # "none" /\ value.items # <<>>

\* utils.to_decimal_array: the Decimals of a list or of a comma-separated string
to_decimal_array(value) == value.items

\* a map layer with the attributes the resolution helpers read
MapLayer(id, type, provider, vis, minScale, maxScale, resolutions) ==
    [id |-> id, type |-> type, provider |-> provider,
     hasScaleBasedVisibility |-> vis,
     minimumScale |-> minScale, maximumScale |-> maxScale,
     resolutions |-> resolutions]

Properties ==
    { NoProperty } \cup
    { ListProperty(q) : q \in SeqsUpTo(ResValues, MaxResLen) } \cup
    { StrProperty(q) : q \in SeqsUpTo(ResValues, MaxResLen) }

\* the WMS raster layers a resolution helper is called on
WmscLayers ==
    { MapLayer("w", "RasterLayer", "wms", FALSE, 0, 0, prop) : prop \in Properties }
    \cup
    { MapLayer("w", "RasterLayer", "wms", TRUE, mn, mx, prop) :
        mn \in 0..MaxScale, mx \in 0..MaxScale, prop \in Properties }

\* filter_visible_resolutions with the maximum taken as inclusive
filterMaxInclusive(resolutions, layer) ==
    IF layer.hasScaleBasedVisibility
    THEN LET r == scales_to_resolutions(<<layer.maximumScale, layer.minimumScale>>)
         IN  SelectSeq(resolutions, LAMBDA res : res >= r[2] /\ res <= r[1])
    ELSE resolutions

\* WebGisPlugin.filter_visible_resolutions
filter_visible_resolutions(resolutions, layer) ==
    IF layer.hasScaleBasedVisibility
    THEN LET r == scales_to_resolutions(<<layer.maximumScale, layer.minimumScale>>)
             max_res_exclusive == r[1]
             min_res_inclusive == r[2]
         IN  SelectSeq(resolutions,
                       LAMBDA res : res >= min_res_inclusive /\ res < max_res_exclusive)
    ELSE resolutions

\* a returned list or None
NoneList == [isNone |-> TRUE, list |-> <<>>]

SomeList(q) == [isNone |-> FALSE, list |-> q]

\* wmsc_layer_resolutions without the final sort
wmscUnsorted(layer) ==
    IF PropertyTruthy(layer.resolutions)
    THEN SomeList(IF layer.hasScaleBasedVisibility
                  THEN filter_visible_resolutions(to_decimal_array(layer.resolutions), layer)
                  ELSE to_decimal_array(layer.resolutions))
    ELSE NoneList

\* WebGisPlugin.wmsc_layer_resolutions
wmsc_layer_resolutions(layer) ==
    IF PropertyTruthy(layer.resolutions)
    THEN LET decimals == to_decimal_array(layer.resolutions)
             layer_resolutions ==
                 IF layer.hasScaleBasedVisibility
                 THEN filter_visible_resolutions(decimals, layer)
                 ELSE decimals
         IN  IF layer_resolutions # <<>>
             THEN SomeList(sortedReverse(layer_resolutions))
             ELSE SomeList(<<>>)
    ELSE NoneList

\* int(scale.split(":")[-1]) of an entry "1:5000", held as <<1, 5000>>
ParseScale(entry) == entry[Len(entry)]

\* project_layers_resolutions without the filter of duplicate scales
projectResolutionsAllScales(layers, entry) ==
    LET base_layers == { layer \in layers : is_base_layer_for_publish(layer) }
        wmsc == UNION { Range(wmsc_layer_resolutions(layer).list) : layer \in base_layers }
        scales == [ i \in 1..Len(entry.scales) |-> ParseScale(entry.scales[i]) ]
    IN  sortedReverseSet(
            IF entry.ok /\ entry.scales # <<>>
            THEN wmsc \cup Range(scales_to_resolutions(sortedReverse(scales)))
            ELSE wmsc)

\* WebGisPlugin.project_layers_resolutions
project_layers_resolutions(layers, entry) ==
    LET base_layers == { layer \in layers : is_base_layer_for_publish(layer) }
        \* wmsc_layer_resolutions is None or a list, and "if layer_resolutions:"
        \* skips None and the empty list, which add nothing
        wmsc == UNION { Range(wmsc_layer_resolutions(layer).list) : layer \in base_layers }
        wmsc_layers_scales == resolutions_to_scales(wmsc)
        parsed == [ i \in 1..Len(entry.scales) |-> ParseScale(entry.scales[i]) ]
        scales == SelectSeq(parsed, LAMBDA scale : scale \notin wmsc_layers_scales)
        project_tile_resolutions ==
            IF entry.ok /\ entry.scales # <<>>
            THEN wmsc \cup Range(scales_to_resolutions(sortedReverse(scales)))
            ELSE wmsc
    IN  sortedReverseSet(project_tile_resolutions)

\* the layers a project is made of
ProjectLayers ==
    { MapLayer("w1", "RasterLayer", "wms", FALSE, 0, 0, ListProperty(<<1, 5>>)),
      MapLayer("w2", "RasterLayer", "wms", FALSE, 0, 0, StrProperty(<<3, 1>>)),
      MapLayer("w3", "RasterLayer", "wms", TRUE, 1, 2, ListProperty(<<2, 3, 4>>)),
      MapLayer("w4", "RasterLayer", "wms", TRUE, 2, 1, ListProperty(<<2, 3>>)),
      MapLayer("w5", "RasterLayer", "wms", FALSE, 0, 0, NoProperty),
      MapLayer("r1", "RasterLayer", "gdal", FALSE, 0, 0, ListProperty(<<5>>)),
      MapLayer("v1", "VectorLayer", "ogr", FALSE, 0, 0, NoProperty) }

\* the values of the project's scales list: absent, or "1:s" entries
ScalesEntries ==
    { [ok |-> FALSE, scales |-> <<>>] } \cup
    { [ok |-> TRUE, scales |-> q] :
        q \in SeqsUpTo({ <<1, s>> : s \in Scales }, MaxScaleEntries) }

(***************************************************************************)
(* Metadata files and the publish dialog.                                  *)
(*                                                                         *)
(* A file name of the project's directory is held by its parts: the text   *)
(* before the project's base name, the base name, the number of digits     *)
(* after the underscore, their value, and the extensions that follow.      *)
(***************************************************************************)
\* the file name of a project that was never saved: the empty string
NoFileName == [dir |-> "", base |-> "", ext |-> ""]

\* the project files of the one directory modelled
FileNames ==
    { [dir |-> "/d", base |-> b, ext |-> ".qgs"] : b \in {"p", "q"} }

\* os.path.basename(os.path.splitext(fileName)[0])
ProjectBaseName(name) == name.base

MetaFile(prefix, base, digits, ts, tail) ==
    [prefix |-> prefix, base |-> base, digits |-> digits, ts |-> ts, tail |-> tail]

NoMetaFile == MetaFile("", "", 0, 0, <<>>)

\* the number of digits of a timestamp: re '\d{10}'
TimestampDigits == 10

Timestamps == 1..MaxTimestamp

\* the files a directory may hold: metadata files of the projects, and
\* names that differ from them before, within or after the pattern
CandidateFiles ==
    { MetaFile("", b, TimestampDigits, t, <<".meta">>) :
        b \in {"p", "q"}, t \in Timestamps }
    \cup { MetaFile("", "p", TimestampDigits, t, <<".meta", ".meta">>) : t \in Timestamps }
    \cup { MetaFile("", "p", TimestampDigits, t, <<".meta", ".bak">>) : t \in Timestamps }
    \cup { MetaFile("", "p", TimestampDigits - 1, t, <<".meta">>) : t \in Timestamps }
    \cup { MetaFile("x", "p", TimestampDigits, t, <<".meta">>) : t \in Timestamps }

RECURSIVE SubsetsUpTo(_, _)
\* the subsets of S of at most n elements
SubsetsUpTo(S, n) ==
    IF n = 0 THEN { {} }
    ELSE LET smaller == SubsetsUpTo(S, n - 1)
         IN  smaller \cup { sub \cup {x} : sub \in smaller, x \in S }

\* filename.endswith('.meta')
EndsWithMeta(file) ==
    file.tail # <<>> /\ file.tail[Len(file.tail)] = ".meta"

\* metadata_pattern.match(filename) is not None: the pattern
\* re.escape(base) + '_(\d{10})\.meta' matches at the start of the name, and
\* the name may go on after it
PatternMatches(base, file) ==
    /\ file.prefix = ""
    /\ file.base = base
    /\ file.digits = TimestampDigits
    /\ file.tail # <<>>
    /\ file.tail[1] = ".meta"

\* (ts, filename) tuple order of two matched files of one project: the
\* timestamp decides; of two names with the same digits the one that goes
\* on after the other's end is the greater string
TupleLess(f, g) ==
    \/ f.ts < g.ts
    \/ (f.ts = g.ts /\ IsProperPrefix(f.tail, g.tail))

\* the content of WebGisPlugin.last_metadata: not set, or a dict
Unset == [kind |-> "unset", source |-> NoMetaFile]

EmptyDict == [kind |-> "dict", source |-> NoMetaFile]

\* json.load of a metadata file: the content of that file
Parsed(file) == [kind |-> "dict", source |-> file]

\* a returned dict or None: a sequence of no or one dict
NoneDict == <<>>

\* WebGisPlugin._last_metadata
_last_metadata(name, files) ==
    LET matched_metadata_files ==
            { f \in files : EndsWithMeta(f) /\ PatternMatches(ProjectBaseName(name), f) }
    IN  IF matched_metadata_files # {}
        THEN LET first == CHOOSE f \in matched_metadata_files :
                            \A g \in matched_metadata_files \ {f} : TupleLess(g, f)
             IN  << Parsed(first) >>
        ELSE NoneDict

\* a new object: an identity other than the one held
NewObject(old) == IF old = 1 THEN 2 ELSE 1

\* the three ways show_publish_dialog ends
ShowReturn(outcome) ==
    [op |-> "show_publish_dialog", outcome |-> outcome,
     fileName |-> fileName, files |-> dirFiles,
     tick |-> IF ret.op = "show_publish_dialog" THEN 1 - ret.tick ELSE 0]

\* show_publish_dialog without its test of dialog.isVisible()
showWithoutVisibleTest ==
    /\ project' = TRUE
    /\ IF fileName = NoFileName
       THEN /\ ret' = ShowReturn("error")
            /\ UNCHANGED <<dialog, dialogVisible, metadata, last_metadata>>
       ELSE /\ metadata' = NewObject(metadata)
            /\ last_metadata' =
                 (IF _last_metadata(fileName, dirFiles) # NoneDict
                  THEN _last_metadata(fileName, dirFiles)[1] ELSE EmptyDict)
            /\ dialog' = NewObject(dialog)
            /\ dialogVisible' = TRUE
            /\ ret' = ShowReturn("shown")
    /\ UNCHANGED hostVars

\* WebGisPlugin.show_publish_dialog, up to dialog.exec_()
show_publish_dialog ==
    IF dialog # 0 /\ dialogVisible
    THEN /\ ret' = ShowReturn("visible")
         /\ UNCHANGED <<hostVars, pluginVars>>
    ELSE /\ project' = TRUE
         /\ IF fileName = NoFileName
            THEN \* QMessageBox.critical
                 /\ ret' = ShowReturn("error")
                 /\ UNCHANGED <<dialog, dialogVisible, metadata, last_metadata>>
            ELSE /\ metadata' = NewObject(metadata)
                 /\ last_metadata' =
                      (IF _last_metadata(fileName, dirFiles) # NoneDict
                       THEN _last_metadata(fileName, dirFiles)[1] ELSE EmptyDict)
                 /\ dialog' = NewObject(dialog)
                 /\ dialogVisible' = TRUE
                 /\ ret' = ShowReturn("shown")
         /\ UNCHANGED hostVars

\* the user closes the wizard: dialog.exec_() returns
CloseDialog ==
    /\ dialog # 0
    /\ dialogVisible
    /\ dialogVisible' = FALSE
    /\ UNCHANGED <<hostVars, dialog, project, metadata, last_metadata, ret>>

\* the user opens another project, or a new one without a file, in the host
OpenProject ==
    /\ ~dialogVisible
    /\ \E name \in FileNames \cup {NoFileName} :
          /\ name # fileName
          /\ fileName' = name
    /\ UNCHANGED <<tree, hostTree, mapLayers, scalesEntry, theLayer, dirFiles,
                   pluginVars, ret>>

(***************************************************************************)
(* Specification of the Node operations.                                   *)
(***************************************************************************)
NoCall == [op |-> "none"]

\* the state of the parts of the program a specification does not exercise
IdleTree == Node("a", <<>>, NoLayer)

IdleProject ==
    /\ mapLayers = {}
    /\ scalesEntry = [ok |-> FALSE, scales |-> <<>>]
    /\ theLayer = NoLayer

\* the plugin as constructed, in a host without a project file
IdlePlugin ==
    /\ fileName = NoFileName
    /\ dirFiles = {}
    /\ dialog = 0
    /\ dialogVisible = FALSE
    /\ project = FALSE
    /\ metadata = 0
    /\ last_metadata = Unset

InitNode ==
    /\ tree \in NodeTrees
    /\ hostTree = IdleHostTree
    /\ IdleProject
    /\ IdlePlugin
    /\ ret = NoCall

\* a call n.find(name)
CallFind ==
    \E n \in Paths(tree), name \in NodeNames \cup {AbsentName} :
        /\ ret' = [op |-> "find", self |-> n, name |-> name,
                   value |-> find(tree, n, name)]
        /\ UNCHANGED <<hostVars, pluginVars>>

\* a call n.cascade(fn)
CallCascade ==
    \E n \in Paths(tree) :
        /\ ret' = [op |-> "cascade", self |-> n,
                   value |-> cascade(tree, n, <<>>)]
        /\ UNCHANGED <<hostVars, pluginVars>>

NextNode == CallFind \/ CallCascade

SpecNode == InitNode /\ [][NextNode]_vars

\* C1: n.find(name) returns the first node in pre-order of the subtree rooted
\* at n whose name is the given name, and None exactly when the subtree has
\* no node of that name.
FindReturnsFirstPreorderMatch ==
    ret.op = "find" =>
        LET matches == { p \in SubtreePaths(tree, ret.self) :
                            NodeAt(tree, p).name = ret.name }
        IN  /\ ret.value.isNone <=> matches = {}
            /\ ~ret.value.isNone =>
                  /\ ret.value.path \in matches
                  /\ \A q \in matches \ {ret.value.path} :
                        PreBefore(ret.value.path, q)

\* a find on an inner node that returns a descendant of it while another node
\* of its subtree has the given name too
FindWitness ==
    /\ ret.op = "find"
    /\ ~ret.value.isNone
    /\ ret.self # <<>>
    /\ ret.value.path # ret.self
    /\ \E q \in SubtreePaths(tree, ret.self) \ {ret.value.path} :
          NodeAt(tree, q).name = ret.name

\* C2: n.cascade(fn) executes fn exactly once on every node of the subtree
\* rooted at n, in post-order, n last.
CascadeIsPostOrder ==
    ret.op = "cascade" =>
        LET log == ret.value
        IN  /\ { log[i] : i \in 1..Len(log) } = SubtreePaths(tree, ret.self)
            /\ Len(log) = Cardinality(SubtreePaths(tree, ret.self))
            /\ \A i, j \in 1..Len(log) : i < j => PostBefore(log[i], log[j])
            /\ log[Len(log)] = ret.self

\* a cascade over a subtree with siblings and a grandchild
CascadeWitness ==
    /\ ret.op = "cascade"
    /\ Len(ret.value) >= 4
    /\ \E i, j \in 1..Len(ret.value) :
          /\ i < j
          /\ Len(ret.value[i]) = Len(ret.value[j])
          /\ Len(ret.value[i]) > Len(ret.self)
    /\ \E i \in 1..Len(ret.value) : Len(ret.value[i]) >= Len(ret.self) + 2

(***************************************************************************)
(* Specification of the layer tree projections.                            *)
(***************************************************************************)
InitLayers ==
    /\ tree = IdleTree
    /\ hostTree \in HostTrees
    /\ IdleProject
    /\ IdlePlugin
    /\ ret = NoCall

CallGetProjectLayers ==
    /\ ret' = [op |-> "get_project_layers", base |-> FALSE,
               value |-> get_project_layers(hostTree)]
    /\ UNCHANGED <<hostVars, pluginVars>>

CallGetProjectBaseLayers ==
    /\ ret' = [op |-> "get_project_base_layers", base |-> TRUE,
               value |-> get_project_base_layers(hostTree)]
    /\ UNCHANGED <<hostVars, pluginVars>>

NextLayers == CallGetProjectLayers \/ CallGetProjectBaseLayers

SpecLayers == InitLayers /\ [][NextLayers]_vars

RECURSIVE PreorderSeq(_)
\* the paths of S in pre-order
PreorderSeq(S) ==
    IF S = {} THEN <<>>
    ELSE LET m == CHOOSE p \in S : \A q \in S \ {p} : PreBefore(p, q)
         IN  <<m>> \o PreorderSeq(S \ {m})

\* the names of the proper ancestors of the node at path p, from the root down
AncestorNames(t, p) ==
    [ i \in 1..Len(p) |-> NodeAt(t, SubSeq(p, 1, i - 1)).name ]

\* the length of the longest common prefix of two paths
CommonLen(p, q) ==
    Cardinality({ k \in 1..Len(p) : k <= Len(q) /\ SubSeq(p, 1, k) = SubSeq(q, 1, k) })

\* the predicate a projection selects layers with
Qualifies(base, layer) ==
    IF base THEN layer.type = "RasterLayer" /\ layer.provider = "wms"
    ELSE layer.type = "VectorLayer"
         \/ (layer.type = "RasterLayer" /\ layer.provider # "wms")

\* C3: get_project_layers and get_project_base_layers return the Node tree
\* whose leaves are exactly the qualifying layers of the host tree, named by
\* their ids and carrying them, in the host's order and nesting; groups
\* without a qualifying layer are omitted, and the result is None when no
\* layer qualifies.
ProjectionKeepsQualifyingLayers ==
    ret.op \in {"get_project_layers", "get_project_base_layers"} =>
        LET host == PreorderSeq({ p \in LayerPaths(hostTree) :
                                    Qualifies(ret.base, NodeAt(hostTree, p).layer) })
        IN  /\ ret.value = NoneNode <=> host = <<>>
            /\ ret.value # NoneNode =>
                 LET res == ret.value[1]
                     leaves == PreorderSeq({ p \in Paths(res) :
                                               NodeAt(res, p).children = <<>> })
                 IN  /\ Len(leaves) = Len(host)
                     /\ \A i \in 1..Len(leaves) :
                           /\ NodeAt(res, leaves[i]).layer = NodeAt(hostTree, host[i]).layer
                           /\ NodeAt(res, leaves[i]).name = NodeAt(hostTree, host[i]).layer.id
                           /\ AncestorNames(res, leaves[i]) = AncestorNames(hostTree, host[i])
                     /\ \A i, j \in 1..Len(leaves) :
                           CommonLen(leaves[i], leaves[j]) = CommonLen(host[i], host[j])
                     /\ \A p \in Paths(res) :
                           NodeAt(res, p).layer = NoLayer => NodeAt(res, p).children # <<>>

\* a projection that dropped a layer and an empty or unqualified group and
\* kept a layer nested in a group
ProjectionWitness ==
    /\ ret.op \in {"get_project_layers", "get_project_base_layers"}
    /\ ret.value # NoneNode
    /\ Cardinality(Paths(ret.value[1])) < Cardinality(Paths(hostTree))
    /\ \E p \in Paths(ret.value[1]) : Len(p) = 2
    /\ \E p \in LayerPaths(hostTree) : ~Qualifies(ret.base, NodeAt(hostTree, p).layer)

(***************************************************************************)
(* Specification of the resolution helpers of one layer.                   *)
(***************************************************************************)
InitLayerRes ==
    /\ tree = IdleTree
    /\ hostTree = IdleHostTree
    /\ mapLayers = {}
    /\ scalesEntry = [ok |-> FALSE, scales |-> <<>>]
    /\ theLayer \in WmscLayers
    /\ IdlePlugin
    /\ ret = NoCall

\* a call filter_visible_resolutions(resolutions, layer) with the Decimals
\* of the values the layer's provider lists
CallFilterVisibleResolutions ==
    LET resolutions == to_decimal_array(theLayer.resolutions)
    IN  /\ ret' = [op |-> "filter_visible_resolutions", layer |-> theLayer,
                   resolutions |-> resolutions,
                   value |-> filter_visible_resolutions(resolutions, theLayer)]
        /\ UNCHANGED <<hostVars, pluginVars>>

\* a call wmsc_layer_resolutions(layer)
CallWmscLayerResolutions ==
    /\ ret' = [op |-> "wmsc_layer_resolutions", layer |-> theLayer,
               value |-> wmsc_layer_resolutions(theLayer)]
    /\ UNCHANGED <<hostVars, pluginVars>>

NextLayerRes == CallFilterVisibleResolutions \/ CallWmscLayerResolutions

SpecLayerRes == InitLayerRes /\ [][NextLayerRes]_vars

\* the resolution of a scale
ResolutionOf(scale) == scales_to_resolutions(<<scale>>)[1]

\* resolution res is within the scale-based visibility of the layer
Visible(res, layer) ==
    /\ ResolutionOf(layer.minimumScale) <= res
    /\ res < ResolutionOf(layer.maximumScale)

\* sequence s is sequence q with the elements failing Keep(_) removed
IsSubsequenceKeeping(s, q, Keep(_)) ==
    LET kept == { i \in 1..Len(q) : Keep(q[i]) }
    IN  /\ Len(s) = Cardinality(kept)
        /\ \A i \in kept :
              s[Cardinality({ j \in kept : j <= i })] = q[i]

\* C6: filter_visible_resolutions returns, in input order, the resolutions r
\* with resolution(minimumScale) <= r < resolution(maximumScale) when the
\* layer has scale-based visibility, and its input otherwise.
FilterKeepsVisibleResolutions ==
    ret.op = "filter_visible_resolutions" =>
        IF ret.layer.hasScaleBasedVisibility
        THEN IsSubsequenceKeeping(ret.value, ret.resolutions,
                                  LAMBDA r : Visible(r, ret.layer))
        ELSE ret.value = ret.resolutions

\* a filter that kept a resolution equal to the minimum and dropped one
\* equal to the maximum
FilterWitness ==
    /\ ret.op = "filter_visible_resolutions"
    /\ ret.layer.hasScaleBasedVisibility
    /\ ResolutionOf(ret.layer.minimumScale) \in Range(ret.value)
    /\ ResolutionOf(ret.layer.maximumScale) \in Range(ret.resolutions)
    /\ Len(ret.value) < Len(ret.resolutions)

\* C7: wmsc_layer_resolutions returns None exactly when the provider has no
\* or an empty 'resolutions' property, and otherwise the descending list of
\* exactly the provider's resolutions that pass the layer's visibility filter.
WmscReturnsSortedVisible ==
    ret.op = "wmsc_layer_resolutions" =>
        LET prop == ret.layer.resolutions
            passes(r) == ret.layer.hasScaleBasedVisibility => Visible(r, ret.layer)
        IN  /\ ret.value.isNone <=> (prop.kind = "none" \/ prop.items = <<>>)
            /\ ~ret.value.isNone =>
                  /\ \A i \in 1..(Len(ret.value.list) - 1) :
                        ret.value.list[i] >= ret.value.list[i + 1]
                  /\ \A r \in Range(prop.items) \cup Range(ret.value.list) :
                        Count(ret.value.list, r) =
                            IF passes(r) THEN Count(prop.items, r) ELSE 0

\* a call that filtered one resolution out and put two others in order
WmscWitness ==
    /\ ret.op = "wmsc_layer_resolutions"
    /\ ~ret.value.isNone
    /\ ret.layer.hasScaleBasedVisibility
    /\ ret.value.list # <<>>
    /\ Len(ret.value.list) < Len(ret.layer.resolutions.items)

\* a call on a layer whose resolutions are all invisible returns the empty list
WmscEmptyWitness ==
    /\ ret.op = "wmsc_layer_resolutions"
    /\ ret.layer.resolutions.items # <<>>
    /\ ret.value = SomeList(<<>>)

(***************************************************************************)
(* Specification of the project's resolutions.                             *)
(***************************************************************************)
InitProject ==
    /\ tree = IdleTree
    /\ hostTree = IdleHostTree
    /\ mapLayers \in SUBSET ProjectLayers
    /\ scalesEntry \in ScalesEntries
    /\ theLayer = NoLayer
    /\ IdlePlugin
    /\ ret = NoCall

\* a call project_layers_resolutions()
CallProjectLayersResolutions ==
    /\ ret' = [op |-> "project_layers_resolutions",
               value |-> project_layers_resolutions(mapLayers, scalesEntry)]
    /\ UNCHANGED <<hostVars, pluginVars>>

NextProject == CallProjectLayersResolutions

SpecProject == InitProject /\ [][NextProject]_vars

\* the resolutions wmsc_layer_resolutions returns for the base layers
WmscResolutions ==
    UNION { Range(wmsc_layer_resolutions(l).list) :
              l \in { m \in mapLayers : Qualifies(TRUE, m) } }

\* the scales of the project's scales list
ProjectScales ==
    IF scalesEntry.ok
    THEN { scalesEntry.scales[i][2] : i \in 1..Len(scalesEntry.scales) }
    ELSE {}

\* C5: project_layers_resolutions returns, in strictly decreasing order, the
\* resolutions of all WMSC base layers and the resolutions of the project
\* scales that are not the scale of one of those, and nothing else.
ProjectResolutionsAreUnion ==
    ret.op = "project_layers_resolutions" =>
        /\ \A i \in 1..(Len(ret.value) - 1) : ret.value[i] > ret.value[i + 1]
        /\ Range(ret.value) =
              WmscResolutions \cup
              { ResolutionOf(s) :
                  s \in { x \in ProjectScales :
                            \A r \in WmscResolutions :
                                x \notin resolutions_to_scales({r}) } }

\* a result made of resolutions of two base layers and of a project scale,
\* with another project scale left out as the scale of a WMSC resolution
ProjectWitness ==
    /\ ret.op = "project_layers_resolutions"
    /\ Cardinality({ l \in mapLayers : Qualifies(TRUE, l)
                        /\ Range(wmsc_layer_resolutions(l).list) # {} }) >= 2
    /\ \E s \in ProjectScales : ResolutionOf(s) \notin Range(ret.value)
    /\ \E s \in ProjectScales :
          ResolutionOf(s) \in Range(ret.value) \ WmscResolutions
    /\ Len(ret.value) >= 3

(***************************************************************************)
(* Specification of the publish dialog.                                    *)
(***************************************************************************)
InitDialog ==
    /\ tree = IdleTree
    /\ hostTree = IdleHostTree
    /\ IdleProject
    /\ fileName \in FileNames \cup {NoFileName}
    /\ dirFiles \in SubsetsUpTo(CandidateFiles, MaxFiles)
    /\ dialog = 0
    /\ dialogVisible = FALSE
    /\ project = FALSE
    /\ metadata = 0
    /\ last_metadata = Unset
    /\ ret = NoCall

NextDialog == show_publish_dialog \/ CloseDialog \/ OpenProject

SpecDialog == InitDialog /\ [][NextDialog]_vars

\* show_publish_dialog has been invoked in this step
Invoked == ret' # ret

\* C4: a dialog is created and metadata and last_metadata are assigned only
\* when no dialog is visible and the project has a file name; an invocation
\* while the dialog is visible changes nothing, and one on a project without
\* a file name reports an error and leaves the three unchanged.
ShowOnlyWhenHiddenAndNamed ==
    [][ /\ (dialog' # dialog \/ metadata' # metadata \/ last_metadata' # last_metadata)
            => (~(dialog # 0 /\ dialogVisible) /\ fileName # NoFileName)
        /\ (Invoked /\ dialog # 0 /\ dialogVisible)
            => UNCHANGED <<hostVars, pluginVars>>
        /\ (Invoked /\ ~(dialog # 0 /\ dialogVisible) /\ fileName = NoFileName)
            => /\ ret'.outcome = "error"
               /\ UNCHANGED <<dialog, metadata, last_metadata>>
      ]_vars

\* an invocation on a project without a file name, after a dialog of an
\* earlier project was shown and closed
ShowWitness ==
    /\ ret.op = "show_publish_dialog"
    /\ ret.outcome = "error"
    /\ dialog # 0
    /\ metadata # 0
    /\ last_metadata # Unset

\* the files named '<project base name>_<10 digits>.meta'
NamedMetaFiles(name, files) ==
    { f \in files : /\ f.prefix = ""
                    /\ f.base = name.base
                    /\ f.digits = TimestampDigits
                    /\ f.tail = <<".meta">> }

\* C8: the last metadata loaded are the parsed content of the file named
\* '<project base name>_<10 digits>.meta' with the greatest timestamp, and the
\* empty dict when the directory holds no such file.
LastMetadataIsLatestNamedFile ==
    (ret.op = "show_publish_dialog" /\ ret.outcome = "shown") =>
        LET named == NamedMetaFiles(ret.fileName, ret.files)
        IN  IF named = {}
            THEN last_metadata = EmptyDict
            ELSE /\ last_metadata.source \in named
                 /\ \A g \in named : g.ts <= last_metadata.source.ts

====
